---- MODULE Spec2Model ----
(***************************************************************************)
(* A model of the drawing-to-formation core of airsim-drone-simulation:    *)
(* CoordinateScaler (coordinate_scaler.py) and the shape detection of      *)
(* PreciseCanvasCapture (drawing_capture.py).                              *)
(*                                                                         *)
(* Each public method is one action.  Its inputs are drawn from small      *)
(* sets, its result is stored in the variables of its component.  The      *)
(* components do not share state, so each has its own specification in     *)
(* which the variables of the other components keep their initial value.   *)
(*                                                                         *)
(* Numbers.  A Python tuple (x, y) is the sequence <<x, y>>.  Python None  *)
(* is the empty sequence <<>>.  Floating-point values are modelled as      *)
(* exact rationals <<numerator, denominator>> (denominator > 0, lowest     *)
(* terms): rounding error is not modelled.                                 *)
(***************************************************************************)
EXTENDS Integers, Sequences, FiniteSets, TLC

(***************************************************************************)
(* Bounds of the model.                                                    *)
(***************************************************************************)
\* optimize_drone_assignment: list lengths and the coordinate grid.
MaxAgents == 2
MaxTargets == 3
MaxCoord == 1
\* scale_to_drone_coordinates: list length, input coordinates k / Resolution
\* for k in 0..MaxNumer, and target sizes 1..MaxTargetSize.
MaxPoints == 2
Resolution == 2
MaxNumer == 4
MaxTargetSize == 2
\* advanced_shape_detection: number of contours findContours returns.
MaxContours == 2
\* classify_shape: vertex counts -MaxNegVertices..MaxVertices.
MaxVertices == 10
MaxNegVertices == 2
MaxImageDim == 2      \* images are up to MaxImageDim pixels wide and high
MaxFrames == 2        \* distinct picture contents the screen can show
MaxFormationPoints == 7   \* num_points is at most MaxFormationPoints ...
MaxNegPoints == 2         \* ... and at least -MaxNegPoints
MaxFormationSize == 2     \* size is in 1..MaxFormationSize
MaxDrones == 2            \* num_drones is at most MaxDrones
MaxConnected == 4         \* connect_drones is called while the list stays this short
MaxPositions == 3         \* formations have up to MaxPositions positions
MaxCameraUpdates == 3     \* the camera pose is sent at most this often
MaxLoopThreads == 2       \* start() creates at most this many threads
MaxIterations == 3        \* the continuous loop begins at most this many iterations

VARIABLES
    \* ---- CoordinateScaler.optimize_drone_assignment ----
    assign_pc,            \* "init" before the first call, "returned" after a call
    current_positions,    \* argument: agent positions, in order
    target_positions,     \* argument: target points, in order
    assign_result,        \* the returned list
    \* ---- CoordinateScaler.scale_to_drone_coordinates ----
    scale_pc,             \* "init" before the call, "returned" after it
    points,               \* argument: list of (x, y)
    target_size,          \* argument
    center_at_origin,     \* argument
    scale_outcome,        \* "ok", or the error the call ended with
    scale_result,         \* the returned list
    scale_printed,        \* what lines 62-67 printed: size and scale factor
    \* ---- PreciseCanvasCapture.advanced_shape_detection ----
    detect_pc,            \* "init" before the call, "returned" after it
    self_min_contour_area, \* the attribute self.min_contour_area
    contours,             \* what cv2.findContours returned for the mask
    vertex_counts,        \* the list built at line 311
    detect_outcome,       \* "ok", or the exception the call ended with
    detect_contour,       \* returned: the chosen contour or None
    detect_points,        \* returned: the point list
    detect_shape,         \* returned: the shape name or failure tag
    detect_vertices,      \* best_vertices, as printed at line 326
    \* ---- PreciseCanvasCapture.classify_shape ----
    classify_pc,          \* "init" before the call, "returned" after it
    vertices,             \* argument
    contour,              \* argument
    area,                 \* argument
    classify_outcome,     \* "ok", or the exception the call ended with
    classify_result,      \* the returned label
    \* PreciseCanvasCapture: the background reference and its two methods
    capture_pc,           \* "idle", "constructed", or the method that returned last
    previous_screenshot,  \* self.previous_screenshot
    background_captured,  \* self.background_captured
    entry_screenshot,     \* self.previous_screenshot when the last call began
    entry_captured,       \* self.background_captured when the last call began
    current_image,        \* argument of the last detect_drawing_changes
    call_outcome,         \* "ok", or the exception the last call ended with
    call_result,          \* what the last call returned
    \* generate_formation_points
    formation_pc,
    shape_type,           \* argument
    num_points,           \* argument
    formation_size,       \* argument size
    formation_result,     \* the returned list of positions
    \* DroneManager
    drones_pc,            \* "idle", "constructed", or the method that returned last
    self_num_drones,      \* self.num_drones
    drone_names,          \* self.drone_names
    drone_client,         \* self.client: None or a MultirotorClient
    connected_drones,     \* self.connected_drones
    move_positions,       \* argument positions of the last move_to_formation
    issued_commands,      \* the AirSim commands the last call issued, in order
    drones_result,        \* what the last call returned
    \* CameraController
    camera_pc,            \* "idle", "constructed", or the operation done last
    default_position,     \* the Vector3r self.default_position refers to
    position_aliased,     \* self.current_position is self.default_position
    current_position,     \* the Vector3r self.current_position refers to
    current_yaw,          \* self.current_yaw, in hundredths of a degree
    current_pitch,        \* self.current_pitch, in hundredths of a degree
    camera_updates,       \* number of _update_camera calls so far
    running,              \* self.running
    camera_thread,        \* self.camera_thread: 0 for None, or a thread number
    loop_threads,         \* the _camera_control_loop threads created so far
    caller_pc,            \* where the thread calling start() and stop() is
    \* main() and DroneFormationController
    main_pc,              \* the statement main() is at
    mode,                 \* the mode chosen at the prompt
    is_running,           \* self.is_running
    last_shape,           \* self.last_shape
    last_points,          \* self.last_points
    detected_shape,       \* shape_type of the current iteration
    detected_points,      \* points of the current iteration
    success,              \* what execute_formation returned in this iteration
    iterations,           \* iterations of the continuous loop begun so far
    exit_path,            \* how the try block of main() was left
    shutdown_calls,       \* number of calls of shutdown_system
    shutdown_log          \* the calls made inside shutdown_system, in order

assignVars == <<assign_pc, current_positions, target_positions, assign_result>>
scaleVars == <<scale_pc, points, target_size, center_at_origin, scale_outcome,
               scale_result, scale_printed>>

detectVars == <<detect_pc, self_min_contour_area, contours, vertex_counts,
                detect_outcome,
                detect_contour, detect_points, detect_shape, detect_vertices>>
classifyVars == <<classify_pc, vertices, contour, area, classify_outcome,
                  classify_result>>

captureVars == <<capture_pc, previous_screenshot, background_captured,
                 entry_screenshot, entry_captured, current_image, call_outcome,
                 call_result>>
formationVars == <<formation_pc, shape_type, num_points, formation_size,
                   formation_result>>

dronesVars == <<drones_pc, self_num_drones, drone_names, drone_client,
                connected_drones, move_positions, issued_commands, drones_result>>

cameraVars == <<camera_pc, default_position, position_aliased,
                current_position, current_yaw, current_pitch, camera_updates,
                running, camera_thread, loop_threads, caller_pc>>

controllerVars == <<main_pc, mode, is_running, last_shape, last_points,
                    detected_shape, detected_points, success, iterations,
                    exit_path,
                    shutdown_calls, shutdown_log>>

vars == <<assignVars, scaleVars, detectVars, classifyVars, captureVars,
          formationVars, dronesVars, cameraVars, controllerVars>>

(***************************************************************************)
(* General helpers.                                                        *)
(***************************************************************************)
Min2(a, b) == IF a <= b THEN a ELSE b
Max2(a, b) == IF a >= b THEN a ELSE b

\* All sequences over S of length 0..n.
SeqsUpTo(S, n) == UNION {[1..k -> S] : k \in 0..n}

\* Rationals <<n, d>> with d > 0, in lowest terms.
Abs(n) == IF n < 0 THEN -n ELSE n

RECURSIVE GCD(_, _)
GCD(a, b) == IF b = 0 THEN a ELSE GCD(b, a % b)

Rat(n, d) ==
    LET g == GCD(Abs(n), Abs(d))
        sign == IF d < 0 THEN -1 ELSE 1
    IN  <<sign * (n \div g), sign * (d \div g)>>

Zero == <<0, 1>>
One == <<1, 1>>
FromInt(n) == <<n, 1>>
RAdd(a, b) == Rat(a[1] * b[2] + b[1] * a[2], a[2] * b[2])
RSub(a, b) == Rat(a[1] * b[2] - b[1] * a[2], a[2] * b[2])
RMul(a, b) == Rat(a[1] * b[1], a[2] * b[2])
RDiv(a, b) == Rat(a[1] * b[2], a[2] * b[1])
RLeq(a, b) == a[1] * b[2] <= b[1] * a[2]
RLess(a, b) == a[1] * b[2] < b[1] * a[2]
RMax(a, b) == IF RLeq(b, a) THEN a ELSE b

\* Number of indices of s holding v.
CountOf(s, v) == Cardinality({k \in 1..Len(s) : s[k] = v})

(***************************************************************************)
(* CoordinateScaler.optimize_drone_assignment                              *)
(***************************************************************************)
None == <<>>

\* The quantity compared at line 174.  The code compares
\* np.sqrt(dx**2 + dy**2); the square root is strictly increasing and exact
\* enough to keep distinct integers below 2^50 apart, so the comparison of
\* the distances is the comparison of these squares.
SquaredDistance(current_pos, target) ==
    (current_pos[1] - target[1]) * (current_pos[1] - target[1])
  + (current_pos[2] - target[2]) * (current_pos[2] - target[2])

\* float('inf') is <<>>, a finite distance d is <<d>>.
Infinity == <<>>

CloserOrEqual(distance, min_distance) ==
    min_distance = Infinity \/ distance <= min_distance[1]

\* line 174: distance < min_distance
Closer(distance, min_distance) ==
    min_distance = Infinity \/ distance < min_distance[1]

\* lines 171-176: the scan of remaining_targets from index k on, carrying
\* (min_distance, closest_target).
RECURSIVE ScanTargets(_, _, _, _, _)
ScanTargets(current_pos, remaining_targets, k, min_distance, closest_target) ==
    IF k > Len(remaining_targets)
    THEN closest_target
    ELSE LET target == remaining_targets[k]
             distance == SquaredDistance(current_pos, target)
         IN  IF Closer(distance, min_distance)
             THEN ScanTargets(current_pos, remaining_targets, k + 1,
                              <<distance>>, target)
             ELSE ScanTargets(current_pos, remaining_targets, k + 1,
                              min_distance, closest_target)

\* lines 168-176
ClosestTarget(current_pos, remaining_targets) ==
    ScanTargets(current_pos, remaining_targets, 1, Infinity, None)

\* Python truthiness of a tuple or None (line 178).
Truthy(t) == t /= None /\ Len(t) > 0

KeepAll(list, x) == list

\* list.remove(x), line 180: drops the first element equal to x.
ListRemove(list, x) ==
    IF \E k \in 1..Len(list) : list[k] = x
    THEN LET first == CHOOSE k \in 1..Len(list) :
                          list[k] = x /\ \A j \in 1..(k - 1) : list[j] /= x
         IN  [j \in 1..(Len(list) - 1) |->
                  IF j < first THEN list[j] ELSE list[j + 1]]
    ELSE list

\* lines 163-180: the loop over current_positions from agent i on.
RECURSIVE AssignLoop(_, _, _, _)
AssignLoop(agents, i, remaining_targets, assigned_targets) ==
    IF i > Len(agents) \/ remaining_targets = <<>>
    THEN assigned_targets
    ELSE LET closest_target == ClosestTarget(agents[i], remaining_targets)
         IN  IF Truthy(closest_target)
             THEN AssignLoop(agents, i + 1,
                             ListRemove(remaining_targets, closest_target),
                             Append(assigned_targets, closest_target))
             ELSE AssignLoop(agents, i + 1, remaining_targets, assigned_targets)

\* lines 145-182
optimize_drone_assignment(agents, targets) ==
    IF agents = <<>> \/ targets = <<>>
    THEN targets
    ELSE AssignLoop(agents, 1, targets, <<>>)

GridPoints == (0..MaxCoord) \X (0..1)

\* Before the call: the two argument lists are any lists of grid points.
AssignInit ==
    /\ assign_pc = "init"
    /\ current_positions \in SeqsUpTo(GridPoints, MaxAgents)
    /\ target_positions \in SeqsUpTo(GridPoints, MaxTargets)
    /\ assign_result = <<>>

\* The call of optimize_drone_assignment(current_positions, target_positions).
OptimizeDroneAssignment ==
    /\ assign_pc = "init"
    /\ assign_result' = optimize_drone_assignment(current_positions,
                                                  target_positions)
    /\ assign_pc' = "returned"
    /\ UNCHANGED <<current_positions, target_positions>>

\* The component is not used.
AssignIdle ==
    /\ assign_pc = "idle"
    /\ current_positions = <<>>
    /\ target_positions = <<>>
    /\ assign_result = <<>>

(***************************************************************************)
(* CoordinateScaler.scale_to_drone_coordinates                             *)
(***************************************************************************)
\* np.min / np.max over one column of the point array (lines 26-27, 48-49).
NpMin(pts, axis) ==
    CHOOSE m \in {pts[i][axis] : i \in 1..Len(pts)} :
        \A i \in 1..Len(pts) : RLeq(m, pts[i][axis])

NpMax(pts, axis) ==
    CHOOSE m \in {pts[i][axis] : i \in 1..Len(pts)} :
        \A i \in 1..Len(pts) : RLeq(pts[i][axis], m)

NoClamp(dimension) == dimension

\* lines 34-37: a width or height of 0 becomes 1.
ClampZero(dimension) == IF dimension = Zero THEN One ELSE dimension

ScaleXOnly(point, scale_factor) ==
    <<RMul(point[1], scale_factor), point[2]>>

\* line 44: points_array * scale_factor, for one row.
ScalePoint(point, scale_factor) ==
    <<RMul(point[1], scale_factor), RMul(point[2], scale_factor)>>

CenterAtMin(scaled_min, scaled_max) == scaled_min

\* lines 52-53: the centre of the scaled bounding box along one axis.
CenterOffset(scaled_min, scaled_max) ==
    RDiv(RAdd(scaled_min, scaled_max), FromInt(2))

\* lines 46-57: translate the scaled points so that the centre is the origin.
CenterPoints(scaled_points) ==
    LET center_x == CenterOffset(NpMin(scaled_points, 1), NpMax(scaled_points, 1))
        center_y == CenterOffset(NpMin(scaled_points, 2), NpMax(scaled_points, 2))
    IN  [i \in 1..Len(scaled_points) |->
            <<RSub(scaled_points[i][1], center_x),
              RSub(scaled_points[i][2], center_y)>>]

\* lines 7-69.  The result is [outcome, result, printed].
scale_to_drone_coordinates(pts, size, center) ==
    IF pts = <<>>
    THEN [outcome |-> "ok", result |-> <<>>, printed |-> None]
    ELSE LET min_x == NpMin(pts, 1)
             min_y == NpMin(pts, 2)
             max_x == NpMax(pts, 1)
             max_y == NpMax(pts, 2)
             width == ClampZero(RSub(max_x, min_x))
             height == ClampZero(RSub(max_y, min_y))
             max_dimension == RMax(width, height)
         IN  IF max_dimension = Zero
             THEN [outcome |-> "division_by_zero", result |-> <<>>,
                   printed |-> None]
             ELSE LET scale_factor == RDiv(FromInt(size), max_dimension)
                      scaled_points ==
                          [i \in 1..Len(pts) |-> ScalePoint(pts[i], scale_factor)]
                  IN  [outcome |-> "ok",
                       result |-> IF center THEN CenterPoints(scaled_points)
                                            ELSE scaled_points,
                       printed |-> [width |-> width, height |-> height,
                                    scale_factor |-> scale_factor]]

\* Input coordinates: 0, 1/Resolution, 2/Resolution, ..., MaxNumer/Resolution.
InputCoords == {Rat(k, Resolution) : k \in 0..MaxNumer}
InputPoints == InputCoords \X InputCoords

\* Before the call: any list of input points, size and flag.
ScaleInit ==
    /\ scale_pc = "init"
    /\ points \in SeqsUpTo(InputPoints, MaxPoints)
    /\ target_size \in 1..MaxTargetSize
    /\ center_at_origin \in BOOLEAN
    /\ scale_outcome = "none"
    /\ scale_result = <<>>
    /\ scale_printed = None

\* The call scale_to_drone_coordinates(points, target_size, center_at_origin).
ScaleToDroneCoordinates ==
    /\ scale_pc = "init"
    /\ \E r \in {scale_to_drone_coordinates(points, target_size, center_at_origin)} :
           /\ scale_outcome' = r.outcome
           /\ scale_result' = r.result
           /\ scale_printed' = r.printed
    /\ scale_pc' = "returned"
    /\ UNCHANGED <<points, target_size, center_at_origin>>

\* The component is not used.
ScaleIdle ==
    /\ scale_pc = "idle"
    /\ points = <<>>
    /\ target_size = 1
    /\ center_at_origin = FALSE
    /\ scale_outcome = "none"
    /\ scale_result = <<>>
    /\ scale_printed = None

(***************************************************************************)
(* PreciseCanvasCapture.classify_shape                                     *)
(*                                                                         *)
(* A contour is known to the code only through OpenCV: cv2.contourArea,    *)
(* cv2.boundingRect, cv2.arcLength and cv2.approxPolyDP.  It is modelled   *)
(* as the record [w, h, area, perimeter] of what the first three return.   *)
(***************************************************************************)
Contour(w, h, a, p) ==
    [w |-> w, h |-> h, area |-> FromInt(a), perimeter |-> p]

\* cv2.contourArea is a multiple of 1/2: a contour of area twice_a / 2.
ContourHalf(w, h, twice_a, p) ==
    [w |-> w, h |-> h, area |-> Rat(twice_a, 2), perimeter |-> p]

\* self.min_contour_area as __init__ sets it
min_contour_area == 300

\* lines 274 and 356: max(w, h) / min(w, h)
AspectRatio(c) == Rat(Max2(c.w, c.h), Min2(c.w, c.h))

\* np.pi, to seven digits.
Pi == Rat(355, 113)

\* line 368: 4 * np.pi * area / (perimeter * perimeter)
Circularity(a, perimeter) ==
    RDiv(RMul(RMul(FromInt(4), Pi), a), FromInt(perimeter * perimeter))

\* lines 354-360
SquareOrRectangle(c) ==
    IF RLess(AspectRatio(c), Rat(12, 10)) THEN "square" ELSE "rectangle"

ManySidedCountFirst(n, circularity) ==
    IF n = 7 THEN "heptagon"
    ELSE IF n = 8 THEN "octagon"
    ELSE IF RLess(Rat(75, 100), circularity) THEN "circle"
    ELSE "polygon_" \o ToString(n) \o "_vertices"

\* lines 369-376
ManySided(n, circularity) ==
    IF RLess(Rat(75, 100), circularity) THEN "circle"
    ELSE IF n = 7 THEN "heptagon"
    ELSE IF n = 8 THEN "octagon"
    ELSE "polygon_" \o ToString(n) \o "_vertices"

\* lines 347-378.  The result is [outcome, label].
classify_shape(n, c, a) ==
    IF n < 3 THEN [outcome |-> "ok", label |-> "line"]
    ELSE IF n = 3 THEN [outcome |-> "ok", label |-> "triangle"]
    ELSE IF n = 4 THEN [outcome |-> "ok", label |-> SquareOrRectangle(c)]
    ELSE IF n = 5 THEN [outcome |-> "ok", label |-> "pentagon"]
    ELSE IF n = 6 THEN [outcome |-> "ok", label |-> "hexagon"]
    ELSE IF n >= 7
    THEN IF c.perimeter = 0
         THEN [outcome |-> "ZeroDivisionError", label |-> "none"]
         ELSE [outcome |-> "ok", label |-> ManySided(n, Circularity(a, c.perimeter))]
    ELSE [outcome |-> "ok", label |-> "unknown"]

\* The contours of the model, as (w, h, area, perimeter): a square, a
\* rectangle of aspect ratio exactly 1.2, a second shape of the square's
\* area, a thin shape of aspect ratio exactly 10 and the largest area, two
\* ovals on either side of circularity 0.75, a speck, a single point, a
\* shape of area exactly min_contour_area and one of fractional area 250.5.
SquareContour == Contour(41, 41, 1600, 160)
RectContour == Contour(50, 60, 2891, 216)
SameAreaContour == Contour(33, 51, 1600, 164)
ThinContour == Contour(30, 300, 8671, 656)
RoundContour == Contour(36, 26, 597, 100)
LessRoundContour == Contour(36, 26, 596, 100)
SpeckContour == Contour(11, 11, 100, 40)
PointContour == Contour(1, 1, 0, 0)
BoundaryContour == Contour(21, 16, 300, 70)
HalfContour == ContourHalf(21, 16, 501, 70)

DetectContours ==
    {SquareContour, RectContour, SameAreaContour, ThinContour, RoundContour,
     SpeckContour, BoundaryContour, HalfContour}
ClassifyContours ==
    {SquareContour, RectContour, SameAreaContour, ThinContour, RoundContour,
     SpeckContour, LessRoundContour, PointContour}

\* Before the call: any vertex count, contour and area.
ClassifyInit ==
    /\ classify_pc = "init"
    /\ vertices \in (0 - MaxNegVertices)..MaxVertices
    /\ contour \in ClassifyContours
    /\ area \in {c.area : c \in ClassifyContours}
    /\ classify_outcome = "none"
    /\ classify_result = "none"

\* The call classify_shape(vertices, contour, area).
ClassifyShape ==
    /\ classify_pc = "init"
    /\ \E r \in {classify_shape(vertices, contour, area)} :
           /\ classify_outcome' = r.outcome
           /\ classify_result' = r.label
    /\ classify_pc' = "returned"
    /\ UNCHANGED <<vertices, contour, area>>

\* The component is not used.
ClassifyIdle ==
    /\ classify_pc = "idle"
    /\ vertices = 0
    /\ contour = PointContour
    /\ area = Zero
    /\ classify_outcome = "none"
    /\ classify_result = "none"

(***************************************************************************)
(* PreciseCanvasCapture.advanced_shape_detection                           *)
(***************************************************************************)
\* line 300, in thousandths
epsilon_values == <<10, 15, 20, 25, 30, 35, 40>>

\* lines 271-278: the filter on area and aspect ratio.
IsLargeContour(c) == RLess(FromInt(self_min_contour_area), c.area)

\* lines 271-278: the filter on area and aspect ratio.
IsValidContour(c) ==
    /\ RLess(FromInt(self_min_contour_area), c.area)
    /\ RLess(AspectRatio(c), FromInt(10))

\* lines 268-278: the indices of contours kept in valid_contours.
ValidIndices(cs) == {i \in 1..Len(cs) : IsValidContour(cs[i])}

\* line 287: sorting the (area, contour) tuples compares two contour arrays
\* as soon as two areas are equal, which raises ValueError.
SortRaises(cs) ==
    \E i, j \in ValidIndices(cs) : i /= j /\ cs[i].area = cs[j].area

\* line 288: the first tuple after the descending sort.
LargestValid(cs) ==
    cs[CHOOSE i \in ValidIndices(cs) :
           \A j \in ValidIndices(cs) : RLeq(cs[j].area, cs[i].area)]

MaxAreaBelowMinimum(cs) ==
    LET small == {cs[i].area : i \in {j \in 1..Len(cs) : ~IsLargeContour(cs[j])}}
    IN  IF small = {} THEN Zero
        ELSE CHOOSE a \in small : \A b \in small : RLeq(b, a)

\* line 282: max(cv2.contourArea(c) for c in contours)
MaxArea(cs) ==
    CHOOSE a \in {cs[i].area : i \in 1..Len(cs)} :
        \A i \in 1..Len(cs) : RLeq(cs[i].area, a)

\* int(x), line 284: truncation towards zero.
IntTrunc(x) ==
    IF x[1] >= 0 THEN x[1] \div x[2] ELSE 0 - ((0 - x[1]) \div x[2])

\* cv2.approxPolyDP(largest_contour, epsilon, True) when it returns n
\* vertices: the j-th vertex of the approximation at this epsilon factor.
ApproxPolygon(epsilon_factor, n) == [j \in 1..n |-> <<epsilon_factor, j>>]

\* lines 303-307: the tuples (vertices, approx, epsilon_factor), for the
\* vertex counts approxPolyDP produced at the seven epsilon factors.
Approximations(counts) ==
    [k \in 1..Len(epsilon_values) |->
        [vertices |-> counts[k],
         approx |-> ApproxPolygon(epsilon_values[k], counts[k]),
         epsilon_factor |-> epsilon_values[k]]]

\* Counter(vertex_counts): the distinct values in order of first occurrence.
RECURSIVE CounterKeys(_)
CounterKeys(counts) ==
    IF counts = <<>>
    THEN <<>>
    ELSE LET front == SubSeq(counts, 1, Len(counts) - 1)
             last == counts[Len(counts)]
             keys == CounterKeys(front)
         IN  IF \E k \in 1..Len(keys) : keys[k] = last
             THEN keys
             ELSE Append(keys, last)

MostCommonLast(counts) ==
    LET keys == CounterKeys(counts)
        best == CHOOSE k \in 1..Len(keys) :
                    /\ \A j \in 1..Len(keys) :
                          CountOf(counts, keys[j]) <= CountOf(counts, keys[k])
                    /\ \A j \in (k + 1)..Len(keys) :
                          CountOf(counts, keys[j]) < CountOf(counts, keys[k])
    IN  keys[best]

\* line 313: Counter.most_common(1)[0][0] is max() over the items by count,
\* which keeps the first of several items with the highest count.
MostCommon(counts) ==
    LET keys == CounterKeys(counts)
        best == CHOOSE k \in 1..Len(keys) :
                    /\ \A j \in 1..Len(keys) :
                          CountOf(counts, keys[j]) <= CountOf(counts, keys[k])
                    /\ \A j \in 1..(k - 1) :
                          CountOf(counts, keys[j]) < CountOf(counts, keys[k])
    IN  keys[best]

LastMatch(approxs, most_common_vertices) ==
    LET hits == {k \in 1..Len(approxs) : approxs[k].vertices = most_common_vertices}
    IN  IF hits = {} THEN None
        ELSE approxs[CHOOSE k \in hits : \A j \in hits : j <= k]

\* lines 316-320: the first tuple whose vertex count is the chosen one.
FirstMatch(approxs, most_common_vertices) ==
    LET hits == {k \in 1..Len(approxs) : approxs[k].vertices = most_common_vertices}
    IN  IF hits = {} THEN None
        ELSE approxs[CHOOSE k \in hits : \A j \in hits : k <= j]

\* lines 259-345.  counts[k] is the number of vertices approxPolyDP returns
\* at the k-th epsilon factor.  The result is
\* [outcome, contour, points, shape, vertex_counts, vertices].
advanced_shape_detection(cs, counts) ==
    LET failure(tag) ==
            [outcome |-> "ok", contour |-> None, points |-> <<>>, shape |-> tag,
             vertex_counts |-> <<>>, vertices |-> 0]
        raised(exception, seen) ==
            [outcome |-> exception, contour |-> None, points |-> <<>>,
             shape |-> "none", vertex_counts |-> seen, vertices |-> 0]
    IN  IF cs = <<>>
        THEN failure("no_contours_found")
        ELSE IF ValidIndices(cs) = {}
        THEN failure("too_small_max_" \o ToString(IntTrunc(MaxArea(cs))))
        ELSE IF SortRaises(cs)
        THEN raised("ValueError", <<>>)
        ELSE LET largest_contour == LargestValid(cs)
                 largest_area == largest_contour.area
                 approxs == Approximations(counts)
                 counted == [k \in 1..Len(approxs) |-> approxs[k].vertices]
                 most_common_vertices == MostCommon(counted)
                 best == FirstMatch(approxs, most_common_vertices)
             IN  IF best = None
                 THEN failure("approximation_failed")
                 ELSE LET shape_name ==
                              classify_shape(best.vertices, largest_contour, largest_area)
                      IN  IF shape_name.outcome /= "ok"
                          THEN raised(shape_name.outcome, counted)
                          ELSE [outcome |-> "ok",
                                contour |-> largest_contour,
                                points |-> best.approx,
                                shape |-> shape_name.label,
                                vertex_counts |-> counted,
                                vertices |-> best.vertices]

\* The vertex counts approxPolyDP may return in the model.
ApproxVertexChoices == {4, 5, 6}

\* What approxPolyDP can answer at the seven epsilon factors: nothing when
\* the call does not get to line 305, one vertex each time for a contour
\* that is a single point, any counts otherwise.
ApproxResponses(cs) ==
    IF cs = <<>> \/ ValidIndices(cs) = {} \/ SortRaises(cs)
    THEN {<<>>}
    ELSE IF LargestValid(cs).perimeter = 0
    THEN {[k \in 1..Len(epsilon_values) |-> 1]}
    ELSE [1..Len(epsilon_values) -> ApproxVertexChoices]

\* Before the call: the object as constructed, and findContours found any
\* list of contours.
DetectInit ==
    /\ detect_pc = "init"
    /\ self_min_contour_area = min_contour_area
    /\ contours \in SeqsUpTo(DetectContours, MaxContours)
    /\ vertex_counts = <<>>
    /\ detect_outcome = "none"
    /\ detect_contour = None
    /\ detect_points = <<>>
    /\ detect_shape = "none"
    /\ detect_vertices = 0

\* The contours when the caller has lowered the minimum area.
ConfiguredContours == {PointContour, SpeckContour, SquareContour}

\* Before the call: the caller has set min_contour_area below 0, and
\* findContours found any list of contours.
DetectConfiguredInit ==
    /\ detect_pc = "init"
    /\ self_min_contour_area \in {0 - 1}
    /\ contours \in SeqsUpTo(ConfiguredContours, MaxContours)
    /\ vertex_counts = <<>>
    /\ detect_outcome = "none"
    /\ detect_contour = None
    /\ detect_points = <<>>
    /\ detect_shape = "none"
    /\ detect_vertices = 0

\* The call advanced_shape_detection(binary_image); approxPolyDP answers
\* with any vertex counts.
AdvancedShapeDetection ==
    /\ detect_pc = "init"
    /\ \E counts \in ApproxResponses(contours) :
          \E r \in {advanced_shape_detection(contours, counts)} :
              /\ vertex_counts' = r.vertex_counts
              /\ detect_outcome' = r.outcome
              /\ detect_contour' = r.contour
              /\ detect_points' = r.points
              /\ detect_shape' = r.shape
              /\ detect_vertices' = r.vertices
    /\ detect_pc' = "returned"
    /\ UNCHANGED <<self_min_contour_area, contours>>

\* The component is not used.
DetectIdle ==
    /\ detect_pc = "idle"
    /\ self_min_contour_area = min_contour_area
    /\ contours = <<>>
    /\ vertex_counts = <<>>
    /\ detect_outcome = "none"
    /\ detect_contour = None
    /\ detect_points = <<>>
    /\ detect_shape = "none"
    /\ detect_vertices = 0


(***************************************************************************)
(* PreciseCanvasCapture: capture_clean_background and                      *)
(* detect_drawing_changes (src/drawing_capture.py, lines 171-257).         *)
(*                                                                         *)
(* An image is [height, width, frame, resampled]: its numpy shape is       *)
(* (height, width, 3), frame names its content as captured, and resampled  *)
(* tells that cv2.resize interpolated it.  A mask is [height, width,       *)
(* method].                                                                *)
(***************************************************************************)
Image(h, w, f) == [height |-> h, width |-> w, frame |-> f, resampled |-> FALSE]

\* What ImageGrab.grab can deliver.
CapturedImages ==
    {Image(h, w, f) : h \in 1..MaxImageDim, w \in 1..MaxImageDim, f \in 1..MaxFrames}

\* image.shape, without the constant channel count.
Shape(image) == <<image.height, image.width>>

ResizeTransposed(image, dsize) ==
    [height |-> dsize[1], width |-> dsize[2], frame |-> image.frame,
     resampled |-> TRUE]

\* cv2.resize(src, dsize): dsize is (width, height).
cv2_resize(image, dsize) ==
    [height |-> dsize[2], width |-> dsize[1], frame |-> image.frame,
     resampled |-> TRUE]

\* lines 219-221: the mask of the fixed threshold.
ThresholdMask(image) ==
    [height |-> image.height, width |-> image.width, method |-> "threshold_230"]

\* lines 230-250: cv2.absdiff needs two arrays of one shape; threshold,
\* morphologyEx and zeros_like keep the shape.
DifferenceMask(background, image) ==
    IF Shape(background) /= Shape(image)
    THEN [outcome |-> "cv2.error", mask |-> None]
    ELSE [outcome |-> "ok",
          mask |-> [height |-> image.height, width |-> image.width,
                    method |-> "difference"]]

\* lines 215-257.  The result is [outcome, mask, previous_screenshot].
detect_drawing_changes(image) ==
    IF ~background_captured \/ previous_screenshot = None
    THEN [outcome |-> "ok", mask |-> ThresholdMask(image),
          previous_screenshot |-> previous_screenshot]
    ELSE LET reference ==
                 IF Shape(image) /= Shape(previous_screenshot)
                 THEN cv2_resize(previous_screenshot, <<image.width, image.height>>)
                 ELSE previous_screenshot
             diff == DifferenceMask(reference, image)
         IN  [outcome |-> diff.outcome, mask |-> diff.mask,
              previous_screenshot |-> reference]

\* After __init__ (lines 11-12).
CaptureInit ==
    /\ capture_pc = "constructed"
    /\ previous_screenshot = None
    /\ background_captured = FALSE
    /\ entry_screenshot = None
    /\ entry_captured = FALSE
    /\ current_image = None
    /\ call_outcome = "none"
    /\ call_result = None

\* The call capture_clean_background(): capture_canvas_only() delivers an
\* image, or None when Paint is not found or the grab fails.
CaptureCleanBackground ==
    /\ capture_pc /= "idle"
    /\ \E background \in CapturedImages \cup {None} :
          IF background /= None
          THEN /\ previous_screenshot' = background
               /\ background_captured' = TRUE
               /\ call_result' = TRUE
          ELSE /\ UNCHANGED <<previous_screenshot, background_captured>>
               /\ call_result' = FALSE
    /\ capture_pc' = "capture_clean_background"
    /\ entry_screenshot' = previous_screenshot
    /\ entry_captured' = background_captured
    /\ current_image' = None
    /\ call_outcome' = "ok"

\* The call detect_drawing_changes(current_image).
DetectDrawingChanges ==
    /\ capture_pc /= "idle"
    /\ \E image \in CapturedImages :
          \E r \in {detect_drawing_changes(image)} :
              /\ current_image' = image
              /\ previous_screenshot' = r.previous_screenshot
              /\ call_outcome' = r.outcome
              /\ call_result' = r.mask
    /\ capture_pc' = "detect_drawing_changes"
    /\ entry_screenshot' = previous_screenshot
    /\ entry_captured' = background_captured
    /\ UNCHANGED background_captured

\* The component is not used.
CaptureIdle ==
    /\ capture_pc = "idle"
    /\ previous_screenshot = None
    /\ background_captured = FALSE
    /\ entry_screenshot = None
    /\ entry_captured = FALSE
    /\ current_image = None
    /\ call_outcome = "none"
    /\ call_result = None


(***************************************************************************)
(* generate_formation_points (src/coordinate_scaler.py, lines 71-143).     *)
(*                                                                         *)
(* A point (size/2 * cos(angle), size/2 * sin(angle)) is kept as its       *)
(* radius and its angle in turns (angle / 2 pi), reduced to [0, 1) because *)
(* cos and sin have period 2 pi.  The points of the square and of the line *)
(* are pairs [x, y] of rationals.                                          *)
(***************************************************************************)
FracPart(r) == Rat(r[1] % r[2], r[2])

PolarPoint(radius, turns) == [radius |-> radius, turns |-> FracPart(turns)]

\* len(range(n)): the i-th value of range(n) is kept at index i + 1.
RangeLen(n) == Max2(0, n)

TakeAll(seq, stop) == seq

\* seq[:stop]
PySlice(seq, stop) ==
    LET last == IF stop >= 0 THEN Min2(stop, Len(seq))
                ELSE Max2(0, Len(seq) + stop)
    IN  SubSeq(seq, 1, last)

\* lines 85-91
TrianglePoints(n, sz) ==
    LET point(i) == PolarPoint(Rat(sz, 2), RSub(Rat(i, 3), Rat(1, 4)))
    IN  [k \in 1..RangeLen(Min2(3, n)) |-> point(k - 1)]

\* lines 93-101
SquarePoints(n, sz) ==
    LET positions ==
            << [x |-> Rat(0 - sz, 2), y |-> Rat(0 - sz, 2)],
               [x |-> Rat(sz, 2), y |-> Rat(0 - sz, 2)],
               [x |-> Rat(sz, 2), y |-> Rat(sz, 2)],
               [x |-> Rat(0 - sz, 2), y |-> Rat(sz, 2)] >>
    IN  PySlice(positions, Min2(4, n))

CirclePointsFromTop(n, sz) ==
    LET point(i) == PolarPoint(Rat(sz, 2), RSub(Rat(i, n), Rat(1, 4)))
    IN  [k \in 1..RangeLen(n) |-> point(k - 1)]

\* lines 103-109 and 135-141
CirclePoints(n, sz) ==
    LET point(i) == PolarPoint(Rat(sz, 2), Rat(i, n))
    IN  [k \in 1..RangeLen(n) |-> point(k - 1)]

\* lines 111-117
PentagonPoints(n, sz) ==
    LET point(i) == PolarPoint(Rat(sz, 2), RSub(Rat(i, 5), Rat(1, 4)))
    IN  [k \in 1..RangeLen(Min2(5, n)) |-> point(k - 1)]

\* lines 119-125
HexagonPoints(n, sz) ==
    LET point(i) == PolarPoint(Rat(sz, 2), Rat(i, 6))
    IN  [k \in 1..RangeLen(Min2(6, n)) |-> point(k - 1)]

\* lines 127-133
LinePoints(n, sz) ==
    LET spacing == RDiv(FromInt(sz), FromInt(Max2(1, n - 1)))
        point(i) == [x |-> RAdd(Rat(0 - sz, 2), RMul(FromInt(i), spacing)),
                     y |-> Zero]
    IN  [k \in 1..RangeLen(n) |-> point(k - 1)]

\* lines 71-143
generate_formation_points(st, n, sz) ==
    CASE st = "triangle" -> TrianglePoints(n, sz)
      [] st = "square" -> SquarePoints(n, sz)
      [] st = "circle" -> CirclePoints(n, sz)
      [] st = "pentagon" -> PentagonPoints(n, sz)
      [] st = "hexagon" -> HexagonPoints(n, sz)
      [] st = "line" -> LinePoints(n, sz)
      [] OTHER -> CirclePoints(n, sz)

\* The shape names tried: the six the code knows and one it does not.
ShapeTypes ==
    {"triangle", "square", "circle", "pentagon", "hexagon", "line", "star"}

\* Before the call: any shape name, any count, any size.
FormationInit ==
    /\ formation_pc = "init"
    /\ shape_type \in ShapeTypes
    /\ num_points \in (0 - MaxNegPoints)..MaxFormationPoints
    /\ formation_size \in 1..MaxFormationSize
    /\ formation_result = <<>>

\* The call generate_formation_points(shape_type, num_points, size).
GenerateFormationPoints ==
    /\ formation_pc = "init"
    /\ formation_result' =
          generate_formation_points(shape_type, num_points, formation_size)
    /\ formation_pc' = "returned"
    /\ UNCHANGED <<shape_type, num_points, formation_size>>

\* The component is not used.
FormationIdle ==
    /\ formation_pc = "idle"
    /\ shape_type = "circle"
    /\ num_points = 0
    /\ formation_size = 1
    /\ formation_result = <<>>


(***************************************************************************)
(* DroneManager (src/drone_manager.py, lines 7-154).                       *)
(*                                                                         *)
(* AirSim is the environment: every call on the client may raise.  A       *)
(* command is [method, drone, position, raised].                           *)
(***************************************************************************)
\* [f"Drone{i}" for i in range(num_drones)]
DroneNames(n) == [k \in 1..Max2(0, n) |-> "Drone" \o ToString(k - 1)]

\* The entries of seq whose index is in keep, in order.
RECURSIVE Subsequence(_, _)
Subsequence(seq, keep) ==
    IF seq = <<>> THEN <<>>
    ELSE LET rest == Subsequence(Tail(seq), {k - 1 : k \in keep \ {1}})
         IN  IF 1 \in keep THEN <<Head(seq)>> \o rest ELSE rest

\* for drone_name in drones: one call of method each, those at the indices
\* in raising end in an exception that the loop body catches.
CommandEach(method, drones, raising) ==
    [k \in 1..Len(drones) |->
        [method |-> method, drone |-> drones[k], position |-> None,
         raised |-> k \in raising]]

\* lines 15-73.  connection tells how MultirotorClient() and
\* confirmConnection() end, found the indices of drone_names whose state can
\* be read, ready those among them that enableApiControl and armDisarm
\* accept.  `if num_drones:` takes None and 0 alike, so the argument 0
\* stands for both.  The result is [num_drones, drone_names, client,
\* connected_drones, returned].
connect_drones(num_drones_arg, connection, found, ready) ==
    LET named == num_drones_arg /= 0
        n == IF named THEN num_drones_arg ELSE self_num_drones
        names == IF named THEN DroneNames(num_drones_arg) ELSE drone_names
        result(client, connected, returned) ==
            [num_drones |-> n, drone_names |-> names, client |-> client,
             connected_drones |-> connected, returned |-> returned]
        available_drones == Subsequence(names, found)
        initialized == Subsequence(names, found \cap ready)
    IN  IF connection = "client_raises"
        THEN result(drone_client, connected_drones, 0)
        ELSE IF connection = "confirm_raises" \/ available_drones = <<>>
        THEN result("MultirotorClient", connected_drones, 0)
        ELSE result("MultirotorClient", connected_drones \o initialized,
                    Len(initialized))

\* lines 121-124: positions[:available_drones] when drones are fewer.
UsablePositions(positions, drones) ==
    IF Len(drones) < Len(positions)
    THEN SubSeq(positions, 1, Len(drones))
    ELSE positions

\* lines 108-154.  raising holds the indices of the moves that raise.  The
\* result is [commands, returned].
move_to_formation(positions, raising) ==
    IF positions = <<>>
    THEN [commands |-> <<>>, returned |-> FALSE]
    ELSE LET used == UsablePositions(positions, connected_drones)
             pairs == Min2(Len(connected_drones), Len(used))
         IN  [commands |->
                  [k \in 1..pairs |->
                      [method |-> "moveToPositionAsync",
                       drone |-> connected_drones[k],
                       position |-> used[k],
                       raised |-> k \in raising]],
              returned |-> TRUE]

\* The positions a formation is made of.
PositionChoices == {<<0, 0>>, <<1, 0>>}

\* After __init__ (lines 8-13).
DronesInit ==
    /\ drones_pc = "constructed"
    /\ self_num_drones \in 1..MaxDrones
    /\ drone_names = DroneNames(self_num_drones)
    /\ drone_client = None
    /\ connected_drones = <<>>
    /\ move_positions = <<>>
    /\ issued_commands = <<>>
    /\ drones_result = None

\* The call connect_drones(num_drones).
ConnectDrones ==
    /\ drones_pc /= "idle"
    /\ Len(connected_drones) + MaxDrones <= MaxConnected
    /\ \E num_drones_arg \in 0..MaxDrones,
          connection \in {"ok", "client_raises", "confirm_raises"},
          found \in SUBSET (1..MaxDrones) :
          \E ready \in SUBSET found :
              \E r \in {connect_drones(num_drones_arg, connection, found, ready)} :
                  /\ self_num_drones' = r.num_drones
                  /\ drone_names' = r.drone_names
                  /\ drone_client' = r.client
                  /\ connected_drones' = r.connected_drones
                  /\ drones_result' = r.returned
    /\ drones_pc' = "connect_drones"
    /\ move_positions' = <<>>
    /\ issued_commands' = <<>>

\* The call takeoff_all() (lines 75-90).
TakeoffAll ==
    /\ drones_pc /= "idle"
    /\ \E raising \in SUBSET (1..Len(connected_drones)) :
          issued_commands' = CommandEach("takeoffAsync", connected_drones, raising)
    /\ drones_pc' = "takeoff_all"
    /\ move_positions' = <<>>
    /\ drones_result' = None
    /\ UNCHANGED <<self_num_drones, drone_names, drone_client, connected_drones>>

\* The call land_all() (lines 92-106).
LandAll ==
    /\ drones_pc /= "idle"
    /\ \E raising \in SUBSET (1..Len(connected_drones)) :
          issued_commands' = CommandEach("landAsync", connected_drones, raising)
    /\ drones_pc' = "land_all"
    /\ move_positions' = <<>>
    /\ drones_result' = None
    /\ UNCHANGED <<self_num_drones, drone_names, drone_client, connected_drones>>

\* The call move_to_formation(positions).
MoveToFormation ==
    /\ drones_pc /= "idle"
    /\ \E positions \in SeqsUpTo(PositionChoices, MaxPositions) :
          \E raising \in SUBSET (1..Min2(Len(positions), Len(connected_drones))) :
              \E r \in {move_to_formation(positions, raising)} :
                  /\ move_positions' = positions
                  /\ issued_commands' = r.commands
                  /\ drones_result' = r.returned
    /\ drones_pc' = "move_to_formation"
    /\ UNCHANGED <<self_num_drones, drone_names, drone_client, connected_drones>>

\* The component is not used.
DronesIdle ==
    /\ drones_pc = "idle"
    /\ self_num_drones = 0
    /\ drone_names = <<>>
    /\ drone_client = None
    /\ connected_drones = <<>>
    /\ move_positions = <<>>
    /\ issued_commands = <<>>
    /\ drones_result = None


(***************************************************************************)
(* CameraController: the camera pose (src/main_controller.py, lines        *)
(* 17-31 and 107-261).                                                     *)
(*                                                                         *)
(* Lengths are in tenths of a metre and angles in hundredths of a degree.  *)
(* x_val and y_val are [base, terms]: the value is base plus, in order,    *)
(* the terms added to it; a term <<length, heading>> stands for            *)
(* length * cos(heading) in x_val and length * sin(heading) in y_val.      *)
(* default_position and current_position are the values of the Vector3r    *)
(* objects the two attributes refer to; position_aliased tells that both   *)
(* attributes refer to one object, so that a write through one is seen     *)
(* through the other.                                                      *)
(***************************************************************************)
Vector3r(x, y, z) == [x_val |-> x, y_val |-> y, z_val |-> z]

Coordinate(base) == [base |-> base, terms |-> <<>>]

\* The camera attributes as one record.
Camera ==
    [default_position |-> default_position,
     position_aliased |-> position_aliased,
     current_position |-> current_position,
     current_yaw |-> current_yaw,
     current_pitch |-> current_pitch,
     camera_updates |-> camera_updates]

\* lines 186-204: the pose is sent; a failure is swallowed.
UpdateCamera(c) == [c EXCEPT !.camera_updates = @ + 1]

\* A write to the Vector3r that current_position refers to.
WritePosition(c, vector) ==
    [c EXCEPT !.current_position = vector,
              !.default_position =
                  IF c.position_aliased THEN vector ELSE c.default_position]

\* self.current_position = <a new Vector3r>
BindPosition(c, vector) ==
    [c EXCEPT !.current_position = vector, !.position_aliased = FALSE]

\* lines 107-142: x_val += length * cos(heading), y_val += length * sin(heading)
MoveHorizontally(c, length, heading) ==
    LET p == c.current_position
        step == <<length, heading % 36000>>
    IN  UpdateCamera(WritePosition(c,
            [p EXCEPT !.x_val.terms = Append(@, step),
                      !.y_val.terms = Append(@, step)]))

\* lines 144-152: z_val -= / += self.move_speed * 0.1
MoveVertically(c, dz) ==
    LET p == c.current_position
    IN  UpdateCamera(WritePosition(c, [p EXCEPT !.z_val = @ + dz]))

\* self.move_speed * 0.1, in tenths of a metre (lines 21, 111)
MoveStep == 2

\* the rotation step of lines 156-171, in hundredths of a degree
RotateStep == 200

\* lines 174-184
reset_camera(c) ==
    UpdateCamera(
        [BindPosition(c, Vector3r(c.default_position.x_val,
                                  c.default_position.y_val,
                                  c.default_position.z_val))
            EXCEPT !.current_yaw = 0, !.current_pitch = 0])

\* The operations on the pose, by name.
CameraOperation(c, name) ==
    CASE name = "_move_forward" -> MoveHorizontally(c, MoveStep, c.current_yaw)
      [] name = "_move_backward" -> MoveHorizontally(c, 0 - MoveStep, c.current_yaw)
      [] name = "_move_left" -> MoveHorizontally(c, MoveStep, c.current_yaw - 9000)
      [] name = "_move_right" -> MoveHorizontally(c, MoveStep, c.current_yaw + 9000)
      [] name = "_move_up" -> MoveVertically(c, 0 - MoveStep)
      [] name = "_move_down" -> MoveVertically(c, MoveStep)
      [] name = "_rotate_pitch_up" ->
            UpdateCamera([c EXCEPT !.current_pitch = Max2(@ - RotateStep, 0 - 9000)])
      [] name = "_rotate_pitch_down" ->
            UpdateCamera([c EXCEPT !.current_pitch = Min2(@ + RotateStep, 9000)])
      [] name = "_rotate_yaw_left" ->
            UpdateCamera([c EXCEPT !.current_yaw = (@ - RotateStep) % 36000])
      [] name = "_rotate_yaw_right" ->
            UpdateCamera([c EXCEPT !.current_yaw = (@ + RotateStep) % 36000])
      [] name = "_reset_camera" -> reset_camera(c)

MoveOperations ==
    {"_move_forward", "_move_backward", "_move_left", "_move_right",
     "_move_up", "_move_down"}
RotateOperations ==
    {"_rotate_pitch_up", "_rotate_pitch_down", "_rotate_yaw_left",
     "_rotate_yaw_right"}

\* degrees(atan2(40, 30)), line 252: the pitch towards a formation at
\* altitude -15 seen from camera_height 25 and camera_distance 30.
LookDownPitch == 5313

\* sum(coords) of line 222
RECURSIVE SumOf(_, _)
SumOf(pts, axis) ==
    IF pts = <<>> THEN 0 ELSE pts[1][axis] + SumOf(Tail(pts), axis)

SpanOf(pts, axis) ==
    LET values == {pts[k][axis] : k \in 1..Len(pts)}
    IN  (CHOOSE v \in values : \A w \in values : w <= v)
        - (CHOOSE v \in values : \A w \in values : v <= w)

\* lines 212-261, called with altitude=-15 (line 350).  The formations of
\* the model are less than 15 m wide, so camera_distance is 30 and the
\* pitch is LookDownPitch.
position_for_formation(c, pts) ==
    IF pts = <<>> THEN c
    ELSE LET center_x == RDiv(FromInt(10 * SumOf(pts, 1)), FromInt(Len(pts)))
             center_y == RDiv(FromInt(10 * SumOf(pts, 2)), FromInt(Len(pts)))
             formation_extent == Max2(SpanOf(pts, 1), SpanOf(pts, 2))
             camera_distance == Max2(30, formation_extent * 2)
             camera_height == Max2(25, 15 + 10)
             towards == <<10 * camera_distance, 4500>>
             placed ==
                 BindPosition(c,
                     Vector3r([base |-> center_x, terms |-> <<towards>>],
                              [base |-> center_y, terms |-> <<towards>>],
                              0 - 10 * camera_height))
         IN  UpdateCamera([placed EXCEPT !.current_yaw = 0 - 13500,
                                         !.current_pitch = LookDownPitch])

\* The point lists position_for_formation is called with.
FormationViews == { <<>>, << <<0, 0>> >>, << <<0, 0>>, <<2, 0>> >> }

\* After __init__ (lines 17-31): current_position is default_position.
CameraInit ==
    /\ camera_pc = "constructed"
    /\ default_position = Vector3r(Coordinate(Zero), Coordinate(Zero), 0 - 200)
    /\ position_aliased = TRUE
    /\ current_position = default_position
    /\ current_yaw = 0
    /\ current_pitch = 0
    /\ camera_updates = 0
    /\ running = FALSE
    /\ camera_thread = 0
    /\ loop_threads = <<>>
    /\ caller_pc = "ready"

\* The camera attributes become those of the record c.
CameraBecomes(c) ==
    /\ default_position' = c.default_position
    /\ position_aliased' = c.position_aliased
    /\ current_position' = c.current_position
    /\ current_yaw' = c.current_yaw
    /\ current_pitch' = c.current_pitch
    /\ camera_updates' = c.camera_updates

\* A call of one move, rotate or reset method.
CallCameraOperation ==
    /\ camera_pc /= "idle"
    /\ camera_updates < MaxCameraUpdates
    /\ \E name \in MoveOperations \cup RotateOperations \cup {"_reset_camera"} :
          /\ CameraBecomes(CameraOperation(Camera, name))
          /\ camera_pc' = name
    /\ UNCHANGED <<running, camera_thread, loop_threads, caller_pc>>

\* The call position_for_formation(points, altitude=-15).
PositionForFormation ==
    /\ camera_pc /= "idle"
    /\ camera_updates < MaxCameraUpdates
    /\ \E pts \in FormationViews :
          CameraBecomes(position_for_formation(Camera, pts))
    /\ camera_pc' = "position_for_formation"
    /\ UNCHANGED <<running, camera_thread, loop_threads, caller_pc>>

\* The component is not used.
CameraIdle ==
    /\ camera_pc = "idle"
    /\ default_position = Vector3r(Coordinate(Zero), Coordinate(Zero), 0 - 200)
    /\ position_aliased = TRUE
    /\ current_position = default_position
    /\ current_yaw = 0
    /\ current_pitch = 0
    /\ camera_updates = 0
    /\ running = FALSE
    /\ camera_thread = 0
    /\ loop_threads = <<>>
    /\ caller_pc = "ready"


(***************************************************************************)
(* CameraController: start, stop and the loop threads                      *)
(* (src/main_controller.py, lines 33-47 and 60-105).                       *)
(*                                                                         *)
(* loop_threads[t] is [pc, saw_esc]: pc is "test" at `while self.running`, *)
(* "body" inside the try block, "stopping" between the two statements of   *)
(* the stop() the loop called for ESC, "done" once the thread has ended.   *)
(* One thread calls start() and stop(); its join(timeout=1) returns when   *)
(* the loop thread has ended or the second has passed, whichever is first. *)
(* An iteration lasts longer than that when r and c are held down (two     *)
(* sleeps of 0.5 s, lines 91 and 95) or a pose call blocks.                *)
(***************************************************************************)
\* The keys held down during one iteration in the model.
LoopKeys == {"q", "esc"}

\* lines 33-40
Start ==
    /\ camera_pc /= "idle"
    /\ caller_pc = "ready"
    /\ Len(loop_threads) < MaxLoopThreads
    /\ IF ~running
       THEN /\ running' = TRUE
            /\ loop_threads' = Append(loop_threads, [pc |-> "test", saw_esc |-> FALSE])
            /\ camera_thread' = Len(loop_threads) + 1
       ELSE UNCHANGED <<running, loop_threads, camera_thread>>
    /\ camera_pc' = "start"
    /\ UNCHANGED <<default_position, position_aliased, current_position,
                   current_yaw, current_pitch, camera_updates, caller_pc>>

\* line 44, called from outside the loop
StopBegin ==
    /\ camera_pc /= "idle"
    /\ caller_pc = "ready"
    /\ running' = FALSE
    /\ caller_pc' = IF camera_thread /= 0 THEN "joining" ELSE "ready"
    /\ camera_pc' = "stop"
    /\ UNCHANGED <<default_position, position_aliased, current_position,
                   current_yaw, current_pitch, camera_updates, camera_thread,
                   loop_threads>>

\* lines 45-47: join(timeout=1) returns, the thread ended or not
StopJoin ==
    /\ caller_pc = "joining"
    /\ caller_pc' = "ready"
    /\ camera_pc' = "stop"
    /\ UNCHANGED <<default_position, position_aliased, current_position,
                   current_yaw, current_pitch, camera_updates, running,
                   camera_thread, loop_threads>>

\* line 62: while self.running
LoopTest(t) ==
    /\ loop_threads[t].pc = "test"
    /\ loop_threads' =
           [loop_threads EXCEPT ![t].pc = IF running THEN "body" ELSE "done"]
    /\ camera_pc' = "_camera_control_loop"
    /\ UNCHANGED <<default_position, position_aliased, current_position,
                   current_yaw, current_pitch, camera_updates, running,
                   camera_thread, caller_pc>>

\* lines 63-101: the keys are handled; for ESC stop() is entered and sets
\* running (line 44).
LoopBody(t) ==
    /\ loop_threads[t].pc = "body"
    /\ \E keys \in SUBSET LoopKeys :
          /\ IF "q" \in keys
             THEN /\ camera_updates < MaxCameraUpdates
                  /\ CameraBecomes(CameraOperation(Camera, "_move_up"))
             ELSE UNCHANGED <<default_position, position_aliased,
                              current_position, current_yaw, current_pitch,
                              camera_updates>>
          /\ IF "esc" \in keys
             THEN /\ running' = FALSE
                  /\ loop_threads' =
                         [loop_threads EXCEPT ![t] = [pc |-> "stopping", saw_esc |-> TRUE]]
             ELSE /\ UNCHANGED running
                  /\ loop_threads' = [loop_threads EXCEPT ![t].pc = "test"]
    /\ camera_pc' = "_camera_control_loop"
    /\ UNCHANGED <<camera_thread, caller_pc>>

\* lines 45-46 on the loop's thread, then lines 99 or 103-105: joining the
\* current thread raises RuntimeError, which the except clause of the loop
\* catches, so that break is skipped; joining another thread returns and
\* break ends the loop.
LoopStopJoin(t) ==
    /\ loop_threads[t].pc = "stopping"
    /\ loop_threads' =
           [loop_threads EXCEPT ![t].pc = IF camera_thread = t THEN "test" ELSE "done"]
    /\ camera_pc' = "_camera_control_loop"
    /\ UNCHANGED <<default_position, position_aliased, current_position,
                   current_yaw, current_pitch, camera_updates, running,
                   camera_thread, caller_pc>>


(***************************************************************************)
(* main() and DroneFormationController (src/main_controller.py, lines      *)
(* 263-507).                                                               *)
(*                                                                         *)
(* The calls into the other components are the environment: each returns   *)
(* any of its possible results or raises.  KeyboardInterrupt arrives while *)
(* main() waits inside a call (input, capture, AirSim, sleep).  The shape  *)
(* None is the string "None"; the point list None is <<>>.                 *)
(***************************************************************************)
NoneShape == "None"

\* What capture_and_process_drawing can return besides (None, None).
DetectedShapes == {"triangle", "square"}
DetectedPoints == { << <<0, 0>> >>, << <<0, 0>>, <<1, 0>> >> }

UpdateAlways(succeeded, old, new) == new

\* lines 429-431: if success: self.last_... = ...
UpdateLast(succeeded, old, new) == IF succeeded THEN new ELSE old

ShutdownLandFirst(call) ==
    CASE call = "shutdown_system" -> "drone_manager.land_all"
      [] call = "drone_manager.land_all" -> "camera_controller.stop"
      [] call = "camera_controller.stop" -> "drone_manager.disconnect"
      [] call = "drone_manager.disconnect" -> "return"

\* lines 459-469: the call that follows call inside shutdown_system
ShutdownNext(call) ==
    CASE call = "shutdown_system" -> "camera_controller.stop"
      [] call = "camera_controller.stop" -> "drone_manager.land_all"
      [] call = "drone_manager.land_all" -> "drone_manager.disconnect"
      [] call = "drone_manager.disconnect" -> "return"

\* line 476 done: the controller exists and the try block is entered.
ControllerInit ==
    /\ main_pc = "start_system"
    /\ mode = "none"
    /\ is_running = FALSE
    /\ last_shape = NoneShape
    /\ last_points = None
    /\ detected_shape = NoneShape
    /\ detected_points = None
    /\ success = FALSE
    /\ iterations = 0
    /\ exit_path = "none"
    /\ shutdown_calls = 0
    /\ shutdown_log = <<>>

\* The try block is left for the finally clause of line 505.
LeaveTry(path) ==
    /\ main_pc' = "finally"
    /\ exit_path' = path

\* lines 480-482: start_system() returns True or False, or raises.
StartSystem ==
    /\ main_pc = "start_system"
    /\ \/ main_pc' = "choose_mode" /\ UNCHANGED exit_path
       \/ LeaveTry("startup_failed")
       \/ LeaveTry("KeyboardInterrupt")
       \/ LeaveTry("Exception")
    /\ UNCHANGED <<mode, is_running, last_shape, last_points, detected_shape,
                   detected_points, success, iterations, shutdown_calls,
                   shutdown_log>>

\* lines 489-499: the prompt is answered with 1 or 2 (other answers repeat
\* it), or is interrupted.
ChooseMode ==
    /\ main_pc = "choose_mode"
    /\ \/ /\ mode' = "1"
          /\ main_pc' = "run_single_mode"
          /\ UNCHANGED <<exit_path, is_running>>
       \/ /\ mode' = "2"
          /\ main_pc' = "loop_test"
          /\ is_running' = TRUE
          /\ UNCHANGED exit_path
       \/ LeaveTry("KeyboardInterrupt") /\ UNCHANGED <<mode, is_running>>
       \/ LeaveTry("Exception") /\ UNCHANGED <<mode, is_running>>
    /\ UNCHANGED <<last_shape, last_points, detected_shape, detected_points, success,
                   iterations, shutdown_calls, shutdown_log>>

\* lines 366-399: one capture, at most one execute_formation.
RunSingleMode ==
    /\ main_pc = "run_single_mode"
    /\ \/ \E st \in DetectedShapes, pts \in DetectedPoints, ok \in BOOLEAN :
             /\ detected_shape' = st
             /\ detected_points' = pts
             /\ success' = ok
             /\ LeaveTry("mode_finished")
       \/ /\ detected_shape' = NoneShape
          /\ detected_points' = None
          /\ UNCHANGED success
          /\ LeaveTry("mode_finished")
       \/ /\ UNCHANGED <<detected_shape, detected_points, success>>
          /\ LeaveTry("KeyboardInterrupt")
       \/ /\ UNCHANGED <<detected_shape, detected_points, success>>
          /\ LeaveTry("Exception")
    /\ UNCHANGED <<mode, is_running, last_shape, last_points, iterations,
                   shutdown_calls, shutdown_log>>

\* lines 445-447 and 452: KeyboardInterrupt inside the loop ends the mode.
LoopInterrupted ==
    /\ main_pc' = "finally"
    /\ exit_path' = "mode_finished"
    /\ is_running' = FALSE

\* lines 414-417: the loop condition and capture_and_process_drawing(),
\* which returns (None, None) for every failure of its own.
CaptureAndProcess ==
    /\ main_pc = "loop_test"
    /\ is_running
    /\ \/ /\ iterations < MaxIterations
          /\ iterations' = iterations + 1
          /\ main_pc' = "compare"
          /\ \/ \E st \in DetectedShapes, pts \in DetectedPoints :
                   detected_shape' = st /\ detected_points' = pts
             \/ detected_shape' = NoneShape /\ detected_points' = None
          /\ UNCHANGED <<is_running, exit_path>>
       \/ /\ LoopInterrupted
          /\ UNCHANGED <<iterations, detected_shape, detected_points>>
    /\ UNCHANGED <<mode, last_shape, last_points, success, shutdown_calls,
                   shutdown_log>>

\* lines 419-427 and 437-443: a shape that differs from the last one is
\* executed; execute_formation returns True or False; otherwise the loop
\* waits.
CompareAndExecute ==
    /\ main_pc = "compare"
    /\ IF detected_shape /= NoneShape /\ detected_points /= <<>>
          /\ (last_shape /= detected_shape \/ last_points /= detected_points)
       THEN \/ /\ \E ok \in BOOLEAN : success' = ok
               /\ main_pc' = "executed"
               /\ UNCHANGED <<is_running, exit_path>>
            \/ LoopInterrupted /\ UNCHANGED success
       ELSE \/ /\ main_pc' = "loop_test"
               /\ UNCHANGED <<success, is_running, exit_path>>
            \/ LoopInterrupted /\ UNCHANGED success
    /\ UNCHANGED <<mode, last_shape, last_points, detected_shape, detected_points,
                   iterations, shutdown_calls, shutdown_log>>

\* lines 429-443: the last shape is recorded, then the loop holds and waits.
RecordAndHold ==
    /\ main_pc = "executed"
    /\ last_shape' = UpdateLast(success, last_shape, detected_shape)
    /\ last_points' = UpdateLast(success, last_points, detected_points)
    /\ \/ main_pc' = "loop_test" /\ UNCHANGED <<is_running, exit_path>>
       \/ LoopInterrupted
    /\ UNCHANGED <<mode, detected_shape, detected_points, success, iterations,
                   shutdown_calls, shutdown_log>>

\* lines 505-507 and 455-457: shutdown_system is entered.
EnterShutdown ==
    /\ main_pc = "finally"
    /\ shutdown_calls' = shutdown_calls + 1
    /\ main_pc' = ShutdownNext("shutdown_system")
    /\ UNCHANGED <<mode, is_running, last_shape, last_points, detected_shape,
                   detected_points, success, iterations, exit_path, shutdown_log>>

\* lines 459-472: one call inside shutdown_system.  It returns, or raises:
\* an Exception ends shutdown_system at line 471, a KeyboardInterrupt ends
\* main().
ShutdownStep ==
    /\ main_pc \in {"camera_controller.stop", "drone_manager.land_all",
                    "drone_manager.disconnect"}
    /\ shutdown_log' = Append(shutdown_log, main_pc)
    /\ \/ main_pc' = ShutdownNext(main_pc)
       \/ main_pc' = "return"
    /\ UNCHANGED <<mode, is_running, last_shape, last_points, detected_shape,
                   detected_points, success, iterations, exit_path,
                   shutdown_calls>>

\* The component is not used.
ControllerIdle ==
    /\ main_pc = "idle"
    /\ mode = "none"
    /\ is_running = FALSE
    /\ last_shape = NoneShape
    /\ last_points = None
    /\ detected_shape = NoneShape
    /\ detected_points = None
    /\ success = FALSE
    /\ iterations = 0
    /\ exit_path = "none"
    /\ shutdown_calls = 0
    /\ shutdown_log = <<>>


(***************************************************************************)
(* The specifications, one per component.                                  *)
(***************************************************************************)
InitScale ==
    /\ ScaleInit
    /\ AssignIdle /\ DetectIdle /\ ClassifyIdle /\ CaptureIdle /\ FormationIdle
    /\ DronesIdle /\ CameraIdle /\ ControllerIdle
NextScale ==
    /\ ScaleToDroneCoordinates
    /\ UNCHANGED <<assignVars, detectVars, classifyVars, captureVars,
                   formationVars, dronesVars,
                   cameraVars, controllerVars>>
SpecScale == InitScale /\ [][NextScale]_vars

InitAssign ==
    /\ AssignInit
    /\ ScaleIdle /\ DetectIdle /\ ClassifyIdle /\ CaptureIdle /\ FormationIdle
    /\ DronesIdle /\ CameraIdle /\ ControllerIdle
NextAssign ==
    /\ OptimizeDroneAssignment
    /\ UNCHANGED <<scaleVars, detectVars, classifyVars, captureVars,
                   formationVars, dronesVars,
                   cameraVars, controllerVars>>
SpecAssign == InitAssign /\ [][NextAssign]_vars

InitClassify ==
    /\ ClassifyInit
    /\ AssignIdle /\ ScaleIdle /\ DetectIdle /\ CaptureIdle /\ FormationIdle
    /\ DronesIdle /\ CameraIdle /\ ControllerIdle
NextClassify ==
    /\ ClassifyShape
    /\ UNCHANGED <<assignVars, scaleVars, detectVars, captureVars,
                   formationVars, dronesVars,
                   cameraVars, controllerVars>>
SpecClassify == InitClassify /\ [][NextClassify]_vars

InitDetect ==
    /\ DetectInit
    /\ AssignIdle /\ ScaleIdle /\ ClassifyIdle /\ CaptureIdle /\ FormationIdle
    /\ DronesIdle /\ CameraIdle /\ ControllerIdle
NextDetect ==
    /\ AdvancedShapeDetection
    /\ UNCHANGED <<assignVars, scaleVars, classifyVars, captureVars,
                   formationVars, dronesVars,
                   cameraVars, controllerVars>>
SpecDetect == InitDetect /\ [][NextDetect]_vars

InitDetectConfigured ==
    /\ DetectConfiguredInit
    /\ AssignIdle /\ ScaleIdle /\ ClassifyIdle /\ CaptureIdle /\ FormationIdle
    /\ DronesIdle /\ CameraIdle /\ ControllerIdle
SpecDetectConfigured == InitDetectConfigured /\ [][NextDetect]_vars

InitCapture ==
    /\ CaptureInit
    /\ AssignIdle /\ ScaleIdle /\ DetectIdle /\ ClassifyIdle /\ FormationIdle
    /\ DronesIdle /\ CameraIdle /\ ControllerIdle
NextCapture ==
    /\ CaptureCleanBackground \/ DetectDrawingChanges
    /\ UNCHANGED <<assignVars, scaleVars, detectVars, classifyVars,
                   formationVars, dronesVars,
                   cameraVars, controllerVars>>
SpecCapture == InitCapture /\ [][NextCapture]_vars

InitFormation ==
    /\ FormationInit
    /\ AssignIdle /\ ScaleIdle /\ DetectIdle /\ ClassifyIdle /\ CaptureIdle
    /\ DronesIdle /\ CameraIdle /\ ControllerIdle
NextFormation ==
    /\ GenerateFormationPoints
    /\ UNCHANGED <<assignVars, scaleVars, detectVars, classifyVars,
                   captureVars, dronesVars,
                   cameraVars, controllerVars>>
SpecFormation == InitFormation /\ [][NextFormation]_vars

InitDrones ==
    /\ DronesInit
    /\ AssignIdle /\ ScaleIdle /\ DetectIdle /\ ClassifyIdle /\ CaptureIdle
    /\ FormationIdle /\ CameraIdle /\ ControllerIdle
NextDrones ==
    /\ ConnectDrones \/ TakeoffAll \/ LandAll \/ MoveToFormation
    /\ UNCHANGED <<assignVars, scaleVars, detectVars, classifyVars,
                   captureVars, formationVars, cameraVars, controllerVars>>
SpecDrones == InitDrones /\ [][NextDrones]_vars

InitCameraPose ==
    /\ CameraInit
    /\ AssignIdle /\ ScaleIdle /\ DetectIdle /\ ClassifyIdle /\ CaptureIdle
    /\ FormationIdle /\ DronesIdle /\ ControllerIdle
NextCameraPose ==
    /\ CallCameraOperation \/ PositionForFormation
    /\ UNCHANGED <<assignVars, scaleVars, detectVars, classifyVars,
                   captureVars, formationVars, dronesVars, controllerVars>>
SpecCameraPose == InitCameraPose /\ [][NextCameraPose]_vars

NextCameraThreads ==
    /\ \/ Start
       \/ StopBegin
       \/ StopJoin
       \/ \E t \in 1..Len(loop_threads) :
              LoopTest(t) \/ LoopBody(t) \/ LoopStopJoin(t)
    /\ UNCHANGED <<assignVars, scaleVars, detectVars, classifyVars,
                   captureVars, formationVars, dronesVars, controllerVars>>
SpecCameraThreads == InitCameraPose /\ [][NextCameraThreads]_vars

InitController ==
    /\ ControllerInit
    /\ AssignIdle /\ ScaleIdle /\ DetectIdle /\ ClassifyIdle /\ CaptureIdle
    /\ FormationIdle /\ DronesIdle /\ CameraIdle
NextController ==
    /\ \/ StartSystem
       \/ ChooseMode
       \/ RunSingleMode
       \/ CaptureAndProcess
       \/ CompareAndExecute
       \/ RecordAndHold
       \/ EnterShutdown
       \/ ShutdownStep
    /\ UNCHANGED <<assignVars, scaleVars, detectVars, classifyVars,
                   captureVars, formationVars, dronesVars, cameraVars>>
SpecController == InitController /\ [][NextController]_vars

(***************************************************************************)
(* Claims about optimize_drone_assignment (checked under SpecAssign).      *)
(***************************************************************************)
AssignReturned == assign_pc = "returned"

\* C1: for every agent list and every target list, empty ones included, the
\* result of optimize_drone_assignment has exactly min(|agents|, |targets|)
\* entries; an empty agent list gives an empty result.
C1_ResultLengthIsMin ==
    AssignReturned =>
        Len(assign_result) = Min2(Len(current_positions), Len(target_positions))

\* C2: the result is a sub-multiset of the target list: no point occurs in
\* the result more often than it occurs among the targets, so no entry of the
\* target list is given to two agents, also when targets repeat coordinates.
C2_TargetsUsedAtMostOnce ==
    AssignReturned =>
        \A p \in GridPoints :
            CountOf(assign_result, p) <= CountOf(target_positions, p)

\* Targets repeat a coordinate, another target lies between the two copies,
\* and both copies were handed out.
C2_Witness ==
    /\ AssignReturned
    /\ Len(current_positions) = 2
    /\ Len(target_positions) = 3
    /\ target_positions[1] = target_positions[3]
    /\ target_positions[1] /= target_positions[2]
    /\ assign_result = <<target_positions[1], target_positions[3]>>

\* The greedy matching, stated on the indices of the target list: the entry
\* picked for agent i is, among the entries not picked for the agents before
\* i, one at minimum distance from agent i, and the first such in input order.
IsGreedyPick(agent, targets, free, k) ==
    /\ k \in free
    /\ \A j \in free :
          /\ SquaredDistance(agent, targets[k]) <= SquaredDistance(agent, targets[j])
          /\ SquaredDistance(agent, targets[k]) = SquaredDistance(agent, targets[j])
                => k <= j

RECURSIVE GreedyPicks(_, _, _)
\* The indices picked for agents 1..i, as a sequence.
GreedyPicks(agents, targets, i) ==
    IF i = 0
    THEN <<>>
    ELSE LET before == GreedyPicks(agents, targets, i - 1)
             free == (1..Len(targets)) \ {before[n] : n \in 1..Len(before)}
         IN  Append(before,
                    CHOOSE k \in free : IsGreedyPick(agents[i], targets, free, k))

ScaleReturned == scale_pc = "returned"

\* Width and height of the bounding box of a non-empty point list.
BoxWidth(pts) == RSub(NpMax(pts, 1), NpMin(pts, 1))
BoxHeight(pts) == RSub(NpMax(pts, 2), NpMin(pts, 2))
LargerSide(pts) == RMax(BoxWidth(pts), BoxHeight(pts))

\* C4: for a non-empty point list whose bounding box has a width or a height
\* above 0, with integer or fractional coordinates, and a positive
\* target_size, the larger side of the bounding box of the returned points
\* equals target_size, with and without centring.
C4_LargerSideIsTargetSize ==
    (ScaleReturned /\ points /= <<>> /\ LargerSide(points) /= Zero) =>
        /\ scale_outcome = "ok"
        /\ Len(scale_result) > 0
        /\ LargerSide(scale_result) = FromInt(target_size)

\* C5: with center_at_origin = TRUE and a non-empty point list the bounding
\* box of the returned points is centred at the origin: min_x + max_x = 0
\* and min_y + max_y = 0.
C5_CentredAtOrigin ==
    (ScaleReturned /\ points /= <<>> /\ center_at_origin) =>
        /\ Len(scale_result) > 0
        /\ RAdd(NpMin(scale_result, 1), NpMax(scale_result, 1)) = Zero
        /\ RAdd(NpMin(scale_result, 2), NpMax(scale_result, 2)) = Zero

\* A centred call whose input box was not centred already and has extent on
\* both axes.
C5_Witness ==
    /\ ScaleReturned
    /\ center_at_origin
    /\ Len(points) = 2
    /\ BoxWidth(points) /= Zero
    /\ BoxHeight(points) /= Zero
    /\ BoxWidth(points) /= BoxHeight(points)
    /\ RLess(Zero, NpMin(points, 1))
    /\ RLess(NpMin(scale_result, 1), Zero)
    /\ RLess(Zero, NpMax(scale_result, 2))

\* The scales a call can use: positive rationals a / b.
ScaleCandidates ==
    {Rat(a, b) : a \in 1..(MaxTargetSize * Resolution), b \in 1..MaxNumer}

\* C6: the output has the length of the input and is the input under one
\* similarity: a single scale s > 0 and a single offset c with
\* output[i] = s * input[i] - c for every i, the same s for x and y, and
\* c = (0, 0) when center_at_origin is false.
C6_UniformSimilarity ==
    ScaleReturned =>
        /\ Len(scale_result) = Len(points)
        /\ points /= <<>> =>
              \E s \in ScaleCandidates :
                  LET c == <<RSub(RMul(s, points[1][1]), scale_result[1][1]),
                             RSub(RMul(s, points[1][2]), scale_result[1][2])>>
                  IN  /\ RLess(Zero, s)
                      /\ \A i \in 1..Len(points) :
                            /\ scale_result[i][1] = RSub(RMul(s, points[i][1]), c[1])
                            /\ scale_result[i][2] = RSub(RMul(s, points[i][2]), c[2])
                      /\ ~center_at_origin => c = <<Zero, Zero>>

\* Two different points, neither axis degenerate, scale other than 1, and an
\* output that is not the input.
C6_Witness ==
    /\ ScaleReturned
    /\ Len(points) = 2
    /\ BoxWidth(points) /= Zero
    /\ BoxHeight(points) /= Zero
    /\ RLess(points[2][1], points[1][1])
    /\ scale_printed /= None
    /\ scale_printed.scale_factor /= One
    /\ Len(scale_result) = 2
    /\ RLess(scale_result[2][1], scale_result[1][1])

\* C7: the call never fails.  An empty list gives an empty list; for a
\* non-empty list a width or height of 0 is replaced by 1 before the scale
\* is computed, so the divisor max(width, height) is not 0, and a list of
\* identical points is scaled by target_size.
C7_NoFailure ==
    ScaleReturned =>
        /\ scale_outcome = "ok"
        /\ points = <<>> => scale_result = <<>>
        /\ points /= <<>> =>
              /\ scale_printed /= None
              /\ scale_printed.width =
                    (IF BoxWidth(points) = Zero THEN One ELSE BoxWidth(points))
              /\ scale_printed.height =
                    (IF BoxHeight(points) = Zero THEN One ELSE BoxHeight(points))
              /\ RMax(scale_printed.width, scale_printed.height) /= Zero
              /\ LargerSide(points) = Zero =>
                    scale_printed.scale_factor = FromInt(target_size)

\* Two identical points (a bounding box without extent) were scaled by a
\* target_size other than 1.
C7_Witness ==
    /\ ScaleReturned
    /\ scale_outcome = "ok"
    /\ Len(points) = 2
    /\ points[1] = points[2]
    /\ target_size > 1
    /\ scale_printed.scale_factor = FromInt(target_size)
    /\ Len(scale_result) = 2

(***************************************************************************)
(* Claims about advanced_shape_detection (checked under SpecDetect).       *)
(***************************************************************************)
\* The call returned a polygon (not a failure tag, not an exception).
DetectSucceeded ==
    detect_pc = "returned" /\ detect_outcome = "ok" /\ detect_contour /= None

\* The smallest index at which v occurs in counts.
FirstIndex(counts, v) ==
    CHOOSE k \in 1..Len(counts) :
        counts[k] = v /\ \A j \in 1..(k - 1) : counts[j] /= v

\* m is the mode of counts, and among the values as frequent as m it is the
\* one produced at the smallest epsilon factor (the smallest index).
IsModeSmallestEpsilon(counts, m) ==
    /\ \E k \in 1..Len(counts) : counts[k] = m
    /\ \A k \in 1..Len(counts) :
          LET u == counts[k]
          IN  /\ CountOf(counts, u) <= CountOf(counts, m)
              /\ (u /= m /\ CountOf(counts, u) = CountOf(counts, m))
                    => FirstIndex(counts, m) < FirstIndex(counts, u)

\* C8: the selected vertex count is the mode of the seven vertex counts
\* obtained at the epsilon factors 0.010..0.040; if several counts are
\* equally frequent it is the one produced by the smallest epsilon factor.
C8_ModeSmallestEpsilonWins ==
    DetectSucceeded =>
        /\ Len(vertex_counts) = 7
        /\ epsilon_values = <<10, 15, 20, 25, 30, 35, 40>>
        /\ IsModeSmallestEpsilon(vertex_counts, detect_vertices)

\* 5 and 4 both occur three times; 5 is produced by the smallest epsilon
\* factor and is selected, although 4 is the smaller count.
C8_Witness ==
    /\ DetectSucceeded
    /\ vertex_counts = <<5, 4, 4, 5, 4, 5, 6>>
    /\ detect_vertices = 5

\* C9: the returned polygon is the approximation produced at the smallest
\* epsilon factor whose vertex count is the selected mode; the returned
\* point list has that many points, in the approximation's vertex order.
C9_FirstApproximationOfMode ==
    DetectSucceeded =>
        \E m \in {vertex_counts[k] : k \in 1..Len(vertex_counts)} :
            /\ IsModeSmallestEpsilon(vertex_counts, m)
            /\ Len(detect_points) = m
            /\ LET first == FirstIndex(vertex_counts, m)
               IN  \A j \in 1..m : detect_points[j] = <<epsilon_values[first], j>>

\* The mode 4 is produced at four epsilon factors, the smallest of them the
\* second one (0.015); the polygon of that approximation is returned.
C9_Witness ==
    /\ DetectSucceeded
    /\ vertex_counts = <<5, 4, 4, 5, 4, 4, 6>>
    /\ detect_points = <<<<15, 1>>, <<15, 2>>, <<15, 3>>, <<15, 4>>>>

(***************************************************************************)
(* Claims about classify_shape (checked under SpecClassify).               *)
(***************************************************************************)
ClassifyReturned == classify_pc = "returned"

\* Aspect ratio of the bounding box below 1.2, in integers.
AspectBelow12(c) == 10 * Max2(c.w, c.h) < 12 * Min2(c.w, c.h)

\* 4 * pi * a / perimeter^2 > 0.75, in integers, with pi = 355/113.
CircularityAbove75(a, perimeter) ==
    16 * 355 * a[1] > 3 * 113 * perimeter * perimeter * a[2]

C11_UnknownIffNegative ==
    (ClassifyReturned /\ classify_outcome = "ok") =>
        (classify_result = "unknown" <=> vertices < 0)


(***************************************************************************)
(* Claims about the choice of the primary contour and the failure tags     *)
(* (checked under SpecDetect and SpecDetectConfigured).                    *)
(***************************************************************************)
\* Area above the minimum and bounding box less than ten times as long as
\* it is wide, in integers.
PassesFilters(c) ==
    /\ c.area[1] > self_min_contour_area * c.area[2]
    /\ Max2(c.w, c.h) < 10 * Min2(c.w, c.h)

AreaAtMost(a, b) == a[1] * b[2] <= b[1] * a[2]

\* C12: the primary contour is one of the contours found, has area above
\* min_contour_area and aspect ratio below 10, and no other contour passing
\* both filters has a larger area; a contour failing a filter is never
\* chosen, even when it is the largest of all.
C12_PrimaryIsLargestValid ==
    DetectSucceeded =>
        /\ \E i \in 1..Len(contours) : contours[i] = detect_contour
        /\ PassesFilters(detect_contour)
        /\ \A i \in 1..Len(contours) :
              PassesFilters(contours[i]) =>
                  AreaAtMost(contours[i].area, detect_contour.area)

\* A thin contour larger than every other was found and a valid one chosen.
C12_Witness ==
    /\ DetectSucceeded
    /\ \E i \in 1..Len(contours) :
          /\ ~PassesFilters(contours[i])
          /\ ~AreaAtMost(contours[i].area, detect_contour.area)

\* The integer n with n <= a < n + 1, for a >= 0.
IntegerPart(a) ==
    CHOOSE n \in 0..a[1] : n * a[2] <= a[1] /\ a[1] < (n + 1) * a[2]

LargestAreaOfAll ==
    CHOOSE a \in {contours[i].area : i \in 1..Len(contours)} :
        \A i \in 1..Len(contours) : AreaAtMost(contours[i].area, a)

TooSmallTag(a) == "too_small_max_" \o ToString(IntegerPart(a))

TooSmallTags == {TooSmallTag(c.area) : c \in DetectContours}

\* C13: the failure tag is "no_contours_found" exactly when no contour was
\* found; it is a too-small tag exactly when contours were found and none
\* passes both filters, and then it carries the integer part of the largest
\* area of all contours found; in both failures the contour is None and the
\* point list is empty.
C13_FailureTags ==
    (detect_pc = "returned" /\ detect_outcome = "ok") =>
        /\ detect_shape = "no_contours_found" <=> contours = <<>>
        /\ detect_shape \in TooSmallTags <=>
              /\ contours /= <<>>
              /\ \A i \in 1..Len(contours) : ~PassesFilters(contours[i])
        /\ detect_shape \in TooSmallTags =>
              detect_shape = TooSmallTag(LargestAreaOfAll)
        /\ (detect_shape = "no_contours_found" \/ detect_shape \in TooSmallTags) =>
              (detect_contour = None /\ detect_points = <<>>)

\* The largest contour was rejected for its aspect ratio only, next to one
\* of fractional area, and the tag carries the area of the former.
C13_Witness ==
    /\ detect_pc = "returned"
    /\ contours = <<HalfContour, ThinContour>>
    /\ detect_shape = "too_small_max_8671"
    /\ detect_contour = None
    /\ detect_points = <<>>

\* C14: advanced_shape_detection always returns a labelled result and never
\* an exception, also when two or more contours passing both filters have
\* exactly equal areas.
C14_NeverRaises ==
    detect_pc = "returned" =>
        (detect_outcome = "ok" /\ detect_shape /= "none")

\* The primary contour has perimeter zero.
PrimaryIsDegenerate ==
    /\ ValidIndices(contours) /= {}
    /\ ~SortRaises(contours)
    /\ LargestValid(contours).perimeter = 0

DetectReturned == capture_pc = "detect_drawing_changes"

\* C16: detect_drawing_changes never changes the stored background
\* reference: after the call previous_screenshot and background_captured are
\* what they were when the call began, whatever the dimensions of the image.
C16_DetectKeepsReference ==
    DetectReturned =>
        /\ previous_screenshot = entry_screenshot
        /\ background_captured = entry_captured

\* C17: for every current image and every state of the reference (none,
\* same dimensions, different dimensions) detect_drawing_changes does not
\* fail and returns a mask as wide and as high as the current image, by the
\* fixed threshold when there is no reference and by difference otherwise.
C17_MaskHasImageDimensions ==
    DetectReturned =>
        /\ call_outcome = "ok"
        /\ call_result /= None
        /\ call_result.height = current_image.height
        /\ call_result.width = current_image.width
        /\ call_result.method =
              IF entry_captured /\ entry_screenshot /= None
              THEN "difference" ELSE "threshold_230"

\* A call with a reference of other dimensions than the current image, the
\* latter not square.
C17_Witness ==
    /\ DetectReturned
    /\ entry_captured
    /\ entry_screenshot /= None
    /\ entry_screenshot.height /= current_image.height
    /\ current_image.height /= current_image.width
    /\ call_result.method = "difference"

(***************************************************************************)
(* Claims about generate_formation_points (checked under SpecFormation).   *)
(***************************************************************************)
FormationReturned == formation_pc = "returned"

\* point lies on the circle of radius size/2 at the angle of degrees.
AtDegrees(point, degrees) ==
    /\ 2 * point.radius[1] = formation_size * point.radius[2]
    /\ 360 * point.turns[1] = (degrees % 360) * point.turns[2]

CornerCount ==
    CASE shape_type = "triangle" -> 3
      [] shape_type = "pentagon" -> 5
      [] shape_type = "hexagon" -> 6
      [] OTHER -> 1

\* C18: for triangle, pentagon and hexagon (K = 3, 5, 6) and every
\* num_points >= 0 the result has min(num_points, K) points on the circle of
\* radius size/2, the first at -90 degrees and the i-th (from 0) at
\* -90 + i * 360 / K degrees.
C18_RegularPolygonFromTop ==
    (/\ FormationReturned
     /\ shape_type \in {"triangle", "pentagon", "hexagon"}
     /\ num_points >= 0) =>
        /\ Len(formation_result) = Min2(num_points, CornerCount)
        /\ \A k \in 1..Len(formation_result) :
              AtDegrees(formation_result[k],
                        (k - 1) * (360 \div CornerCount) - 90)

\* point is (x_halves * size/2, y_halves * size/2), x_halves and y_halves
\* given as rationals.
AtHalves(point, x_halves, y_halves) ==
    /\ 2 * point.x[1] * x_halves[2] = x_halves[1] * formation_size * point.x[2]
    /\ 2 * point.y[1] * y_halves[2] = y_halves[1] * formation_size * point.y[2]

\* C19: for "line" the N points lie on the x-axis from -size/2 to +size/2,
\* size/(N-1) apart, for N >= 2; N = 1 returns the single point (0, 0).
C19_LineSpansSize ==
    (FormationReturned /\ shape_type = "line" /\ num_points >= 1) =>
        /\ Len(formation_result) = num_points
        /\ num_points = 1 =>
              AtHalves(formation_result[1], <<0, 1>>, <<0, 1>>)
        /\ num_points >= 2 =>
              \A k \in 1..Len(formation_result) :
                  AtHalves(formation_result[k],
                           <<2 * (k - 1) - (num_points - 1), num_points - 1>>,
                           <<0, 1>>)

\* Bottom left, bottom right, top right, top left, in halves of size.
CornerSigns == << <<0 - 1, 0 - 1>>, <<1, 0 - 1>>, <<1, 1>>, <<0 - 1, 1>> >>

\* C20: for "square" and every num_points >= 0 the result is the first
\* min(4, num_points) of the corners bottom left, bottom right, top right,
\* top left of the square of side size about the origin.
C20_SquareCornersInOrder ==
    (FormationReturned /\ shape_type = "square" /\ num_points >= 0) =>
        /\ Len(formation_result) = Min2(4, num_points)
        /\ \A k \in 1..Len(formation_result) :
              AtHalves(formation_result[k],
                       <<CornerSigns[k][1], 1>>, <<CornerSigns[k][2], 1>>)

\* Two drones on a square: the two bottom corners.
C20_Witness ==
    /\ FormationReturned
    /\ shape_type = "square"
    /\ num_points = 2
    /\ Len(formation_result) = 2
    /\ formation_result[1].x /= formation_result[2].x


\* C21: for "circle" the result has exactly num_points points on the circle
\* of radius size/2, the i-th (from 0) at i * 360 / num_points degrees, the
\* first at angle 0; a shape name that is none of the six known ones gives
\* the list that "circle" gives for the same num_points and size.
C21_CircleFromZero ==
    (/\ FormationReturned
     /\ shape_type \notin {"triangle", "square", "pentagon", "hexagon", "line"}
     /\ num_points >= 0) =>
        /\ Len(formation_result) = num_points
        /\ \A k \in 1..Len(formation_result) :
              /\ 2 * formation_result[k].radius[1] =
                     formation_size * formation_result[k].radius[2]
              /\ num_points * formation_result[k].turns[1] =
                     (k - 1) * formation_result[k].turns[2]

\* An unknown shape name with more points than any polygon has.
C21_Witness ==
    /\ FormationReturned
    /\ shape_type = "star"
    /\ num_points = MaxFormationPoints
    /\ Len(formation_result) = MaxFormationPoints
    /\ formation_result[1].turns = Zero

\* C30: for every shape name and every num_points <= 0 the result is the
\* empty list, and the result never has more points than were requested.
C30_NeverMoreThanRequested ==
    FormationReturned =>
        /\ num_points <= 0 => formation_result = <<>>
        /\ Len(formation_result) <= Max2(0, num_points)


(***************************************************************************)
(* Claims about DroneManager (checked under SpecDrones).                   *)
(***************************************************************************)
MoveReturned == drones_pc = "move_to_formation"

\* No two entries of seq are equal.
NoRepeats(seq) ==
    \A i, j \in 1..Len(seq) : i /= j => seq[i] /= seq[j]

CommandedDrones == [k \in 1..Len(issued_commands) |-> issued_commands[k].drone]

\* C24: move_to_formation with a non-empty position list issues exactly
\* min(|connected_drones|, |positions|) move commands, the i-th connected
\* drone being sent to the i-th position and no drone receiving more than
\* one command; with an empty list it issues none and returns False.
C24_OneMovePerDrone ==
    MoveReturned =>
        IF move_positions = <<>>
        THEN issued_commands = <<>> /\ drones_result = FALSE
        ELSE /\ Len(issued_commands) =
                    Min2(Len(connected_drones), Len(move_positions))
             /\ \A k \in 1..Len(issued_commands) :
                    /\ issued_commands[k].method = "moveToPositionAsync"
                    /\ issued_commands[k].drone = connected_drones[k]
                    /\ issued_commands[k].position = move_positions[k]
             /\ NoRepeats(CommandedDrones)

\* C28: move_to_formation returns True only if every move command it issued
\* completed without raising.
C28_SuccessMeansAllMoved ==
    (MoveReturned /\ drones_result = TRUE) =>
        \A k \in 1..Len(issued_commands) : ~issued_commands[k].raised

\* C29: after any sequence of connect_drones calls connected_drones holds
\* each drone name at most once, so takeoff_all, land_all and
\* move_to_formation command each drone at most once per call.
C29_EachDroneOnce ==
    /\ NoRepeats(connected_drones)
    /\ drones_pc \in {"takeoff_all", "land_all", "move_to_formation"} =>
          NoRepeats(CommandedDrones)


(***************************************************************************)
(* Claims about the camera pose (checked under SpecCameraPose).            *)
(***************************************************************************)
\* The position (0, 0, -20).
IsDefaultPosition(vector) ==
    /\ vector.x_val.base[1] = 0 /\ vector.x_val.terms = <<>>
    /\ vector.y_val.base[1] = 0 /\ vector.y_val.terms = <<>>
    /\ vector.z_val = 0 - 200

\* C22: after any sequence of move, rotate and position_for_formation
\* operations _reset_camera leaves the camera at (0, 0, -20) with yaw 0 and
\* pitch 0, and no operation ever changes the stored default position.
C22_ResetRestoresDefault ==
    /\ IsDefaultPosition(default_position)
    /\ camera_pc = "_reset_camera" =>
          /\ IsDefaultPosition(current_position)
          /\ current_yaw = 0
          /\ current_pitch = 0


(***************************************************************************)
(* Claims about the camera loop threads (checked under SpecCameraThreads). *)
(***************************************************************************)
\* C26: once the loop has seen the ESC key it begins no further iteration
\* (and so sends no further camera update): after the stop() it calls on
\* its own thread it only tests self.running again and ends.
C26_EscEndsLoop ==
    \A t \in 1..Len(loop_threads) :
        loop_threads[t].saw_esc => loop_threads[t].pc \in {"stopping", "test", "done"}

\* The threads that have not ended.
ActiveLoops == {t \in 1..Len(loop_threads) : loop_threads[t].pc /= "done"}

\* C27: at any time at most one camera control loop thread is executing,
\* for every interleaving of start() and stop() with the loop.
C27_AtMostOneLoop == Cardinality(ActiveLoops) <= 1


(***************************************************************************)
(* Claims about main() and the continuous mode (checked under              *)
(* SpecController).                                                        *)
(***************************************************************************)
InShutdown ==
    main_pc \in {"camera_controller.stop", "drone_manager.land_all",
                 "drone_manager.disconnect", "return"}

ShutdownOrder ==
    <<"camera_controller.stop", "drone_manager.land_all",
      "drone_manager.disconnect">>

\* C23: on every path out of main() shutdown_system is invoked exactly once
\* (never twice, and main() is not left without it), and the calls inside
\* it are made in the order camera stop, land_all, disconnect.
C23_ShutdownOnceInOrder ==
    /\ shutdown_calls = (IF InShutdown THEN 1 ELSE 0)
    /\ Len(shutdown_log) <= Len(ShutdownOrder)
    /\ \A k \in 1..Len(shutdown_log) : shutdown_log[k] = ShutdownOrder[k]
    /\ main_pc = "return" => Len(shutdown_log) >= 1

\* main() was left through KeyboardInterrupt and shut down completely.
C23_Witness ==
    /\ main_pc = "return"
    /\ exit_path = "KeyboardInterrupt"
    /\ shutdown_calls = 1
    /\ shutdown_log = ShutdownOrder

DetectionIsNew ==
    /\ detected_shape /= NoneShape
    /\ detected_points /= <<>>
    /\ (last_shape /= detected_shape \/ last_points /= detected_points)

\* C25: in run_continuous_mode last_shape and last_points change only right
\* after execute_formation returned True and then become the shape and
\* points just executed; execute_formation is invoked exactly for a
\* detection that differs from (last_shape, last_points), so a detection
\* equal to the last one is not executed and one whose execution failed is
\* executed again when it is detected again.
C25_LastShapeFollowsSuccess ==
    [][/\ (last_shape' /= last_shape \/ last_points' /= last_points) =>
              /\ main_pc = "executed"
              /\ success
              /\ last_shape' = detected_shape
              /\ last_points' = detected_points
       /\ (main_pc = "executed" /\ ~success) =>
              UNCHANGED <<last_shape, last_points>>
       /\ (main_pc = "compare" /\ main_pc' = "executed") => DetectionIsNew
       /\ (main_pc = "compare" /\ main_pc' = "loop_test") => ~DetectionIsNew
      ]_vars

\* A new shape has been executed with success while another one is recorded.
C25_Witness ==
    /\ main_pc = "executed"
    /\ success
    /\ last_shape \notin {NoneShape, detected_shape}

=============================================================================
